---- MODULE Spec2Model ----
(***************************************************************************)
(* EDI claim parser (src/src/edi/edi_parser.py): the command line entry     *)
(* points and the split pipeline.                                          *)
(*                                                                         *)
(* A string is a sequence of one-character strings, so that startswith,    *)
(* split, join and the csv reader are computed character by character.     *)
(* A Python list is an object on a heap (lists), named by its index: the   *)
(* claim buffer cur_claim_data and the data field of a Claim are           *)
(* references, as they are in the program.                                 *)
(***************************************************************************)
EXTENDS Integers, Sequences, FiniteSets, TLC

VARIABLES
    subcommand,       \* the subcommand on the command line: none, verify, split
    input_given,      \* --input_file is on the command line
    output_given,     \* --output_dir is on the command line
    input_open,       \* what open(filename, "r") does: ok, or the exception raised
    content,          \* the characters of the input file
    pc,               \* where the run is: main, start, parse, check, write, done, exit
    segments,         \* what the csv reader delivers, rows flattened in order
    pos,              \* index of the next segment of the two for-loops
    header,           \* module global header
    footer,           \* module global footer
    claims,           \* module global claims: Claim objects, data a list reference
    claim_counts,     \* module global claim_counts
    lists,            \* the heap of claim-data list objects
    cur_claim_data,   \* local of parse_input_file: a reference into lists
    cur_claim_type,   \* local of parse_input_file: None or a ClaimType
    error,            \* the exception that ended the run, or "none"
    wi,               \* position of split's loop over ClaimType
    files,            \* the output directory: file name -> characters written
    exit_code         \* value handed to sys.exit, 0 while none

\* the command line and the file system as the run finds them
args == <<subcommand, input_given, output_given, input_open>>

vars == <<args, content, pc, segments, pos, header, footer, claims, claim_counts,
          lists, cur_claim_data, cur_claim_type, error, wi, files, exit_code>>

-----------------------------------------------------------------------------
(* Module constants, lines 38-47.                                          *)

SEGMENT_DELIMITER == "~"
ELEMENT_DELIMITER == "*"
HEADER_SEGMENTS == << <<"I", "S", "A">>, <<"G", "S">> >>
FOOTER_SEGMENTS == << <<"G", "E">>, <<"I", "E", "A">> >>
FOOTER_CLAIM_COUNT_SEGMENT == <<"G", "E">>
CLAIM_START_SEGMENT == <<"S", "T">>
CLAIM_END_SEGMENT == <<"S", "E">>
CLAIM_TYPE_SEGMENT == <<"B", "H", "T">>
CLAIM_TYPE_ELEMENT_NUM == 3
CLAIM_COUNT_ELEMENT_NUM == 1

\* class ClaimType(Enum), in definition order (the order of `for .. in ClaimType`)
ClaimType == <<"CE", "CF">>

ClaimTypes == {ClaimType[i] : i \in 1..Len(ClaimType)}

\* ClaimType.name, as characters
ClaimTypeName(T) == IF T = "CE" THEN <<"C", "E">> ELSE <<"C", "F">>

\* class ErrorCode(Enum)
ERR_MISSING_SUBCOMMAND == 1
ERR_MISSING_ARG == 2
ERR_CANT_READ_FILE == 3
ERR_CANT_WRITE_FILE == 4
ERR_HEADER_NOT_FOUND == 5
ERR_FOOTER_NOT_FOUND == 6
ERR_CLAIM_DATA_NOT_FOUND == 7
ERR_UNKNOWN == 256

-----------------------------------------------------------------------------
(* Python string operations.                                               *)

\* s.startswith(p)
StartsWith(s, p) == Len(s) >= Len(p) /\ SubSeq(s, 1, Len(p)) = p

\* s.startswith(tuple(ps))
StartsWithAny(s, ps) == \E i \in 1..Len(ps) : StartsWith(s, ps[i])

RECURSIVE SplitFrom(_, _, _, _, _)
SplitFrom(s, d, i, cur, acc) ==
    IF i > Len(s) THEN Append(acc, cur)
    ELSE IF s[i] = d THEN SplitFrom(s, d, i + 1, <<>>, Append(acc, cur))
    ELSE SplitFrom(s, d, i + 1, Append(cur, s[i]), acc)

\* s.split(d): always at least one element
Split(s, d) == SplitFrom(s, d, 1, <<>>, <<>>)

RECURSIVE Join(_, _)
\* d.join(parts)
Join(parts, d) ==
    IF Len(parts) = 0 THEN <<>>
    ELSE IF Len(parts) = 1 THEN parts[1]
    ELSE parts[1] \o <<d>> \o Join(Tail(parts), d)

Digit(d) == <<"0", "1", "2", "3", "4", "5", "6", "7", "8", "9">>[d + 1]

RECURSIVE Str(_)
\* str(n) for n >= 0
Str(n) == IF n < 10 THEN <<Digit(n)>> ELSE Str(n \div 10) \o <<Digit(n % 10)>>

\* s[:n]
Prefix(s, n) == SubSeq(s, 1, IF Len(s) < n THEN Len(s) ELSE n)

RECURSIVE IndexFrom(_, _, _)
IndexFrom(s, c, i) ==
    IF i > Len(s) THEN 0 ELSE IF s[i] = c THEN i ELSE IndexFrom(s, c, i + 1)

\* s.index(c), one-based; 0 stands for ValueError
Index(s, c) == IndexFrom(s, c, 1)

-----------------------------------------------------------------------------
(* csv.reader(fh, delimiter=SEGMENT_DELIMITER), line 158: the reader's     *)
(* character state machine under the default dialect (quotechar '"',       *)
(* doublequote, no escapechar, not strict). fh is opened in text mode, so   *)
(* every line break reaches the reader as "\n".                            *)

QUOTECHAR == "\""
NL == "\n"
EOL == "EOL"    \* the end-of-line mark the reader feeds itself after each line

ReaderStart == [state |-> "START_RECORD", field |-> <<>>, fields |-> <<>>, rows |-> <<>>]

SaveField(t) == [t EXCEPT !.fields = Append(@, t.field), !.field = <<>>]

AddChar(t, c) == [t EXCEPT !.field = Append(@, c)]

AfterLineEnd(c) == IF c = EOL THEN "START_RECORD" ELSE "EAT_CRNL"

StartField(t, c) ==
    IF c \in {NL, EOL} THEN [SaveField(t) EXCEPT !.state = AfterLineEnd(c)]
    ELSE IF c = QUOTECHAR THEN [t EXCEPT !.state = "IN_QUOTED_FIELD"]
    ELSE IF c = SEGMENT_DELIMITER THEN SaveField(t)
    ELSE [AddChar(t, c) EXCEPT !.state = "IN_FIELD"]

\* InField with the line break kept in the field instead of ending it
InFieldKeepsBreak(t, c) ==
    IF c = EOL THEN [SaveField(t) EXCEPT !.state = "START_RECORD"]
    ELSE IF c = SEGMENT_DELIMITER THEN [SaveField(t) EXCEPT !.state = "START_FIELD"]
    ELSE AddChar(t, c)

InField(t, c) ==
    IF c \in {NL, EOL} THEN [SaveField(t) EXCEPT !.state = AfterLineEnd(c)]
    ELSE IF c = SEGMENT_DELIMITER THEN [SaveField(t) EXCEPT !.state = "START_FIELD"]
    ELSE AddChar(t, c)

InQuotedField(t, c) ==
    IF c = EOL THEN t
    ELSE IF c = QUOTECHAR THEN [t EXCEPT !.state = "QUOTE_IN_QUOTED_FIELD"]
    ELSE AddChar(t, c)

QuoteInQuotedField(t, c) ==
    IF c = QUOTECHAR THEN [AddChar(t, c) EXCEPT !.state = "IN_QUOTED_FIELD"]
    ELSE IF c = SEGMENT_DELIMITER THEN [SaveField(t) EXCEPT !.state = "START_FIELD"]
    ELSE IF c \in {NL, EOL} THEN [SaveField(t) EXCEPT !.state = AfterLineEnd(c)]
    ELSE [AddChar(t, c) EXCEPT !.state = "IN_FIELD"]

\* parse_process_char; ERROR is csv.Error (a character after a line break
\* within one line), which a file read in text mode never raises, since
\* after a "\n" only the end-of-line mark follows
ProcessChar(t, c) ==
    CASE t.state = "START_RECORD" ->
            IF c = EOL THEN t
            ELSE IF c = NL THEN [t EXCEPT !.state = "EAT_CRNL"]
            ELSE StartField([t EXCEPT !.state = "START_FIELD"], c)
      [] t.state = "START_FIELD" -> StartField(t, c)
      [] t.state = "IN_FIELD" -> InField(t, c)
      [] t.state = "IN_QUOTED_FIELD" -> InQuotedField(t, c)
      [] t.state = "QUOTE_IN_QUOTED_FIELD" -> QuoteInQuotedField(t, c)
      [] t.state = "EAT_CRNL" ->
            IF c = NL THEN t
            ELSE IF c = EOL THEN [t EXCEPT !.state = "START_RECORD"]
            ELSE [t EXCEPT !.state = "ERROR"]
      [] t.state = "ERROR" -> t

\* the end of one line: the end-of-line mark, and the row is returned when
\* the reader is back at the start of a record
EndLine(t) ==
    LET u == ProcessChar(t, EOL)
    IN  IF u.state = "START_RECORD"
        THEN [u EXCEPT !.rows = Append(@, u.fields), !.fields = <<>>]
        ELSE u

\* the input iterator is exhausted while a record is open
EndInput(t) ==
    IF t.state # "START_RECORD" /\ (Len(t.field) # 0 \/ t.state = "IN_QUOTED_FIELD")
    THEN LET u == SaveField(t) IN [u EXCEPT !.rows = Append(@, u.fields)]
    ELSE t

\* one character of a line; a line ends with its "\n", after which the
\* reader is fed the end-of-line mark
Feed(t, c) == IF c = NL THEN EndLine(ProcessChar(t, NL)) ELSE ProcessChar(t, c)

RECURSIVE ReadRange(_, _, _, _)
\* the characters s[lo..hi] fed in order to the reader in state t, up to
\* an error
ReadRange(s, lo, hi, t) ==
    IF lo > hi \/ t.state = "ERROR" THEN t
    ELSE IF lo = hi THEN Feed(t, s[lo])
    ELSE ReadRange(s, (lo + hi) \div 2 + 1, hi, ReadRange(s, lo, (lo + hi) \div 2, t))

\* the rows csv.reader yields for a file of characters s; a last line
\* without "\n" ends with the end-of-line mark too
Rows(s) ==
    LET t == ReadRange(s, 1, Len(s), ReaderStart)
    IN  EndInput(IF Len(s) > 0 /\ s[Len(s)] # NL THEN EndLine(t) ELSE t).rows

RECURSIVE Flatten(_)
Flatten(rows) == IF Len(rows) = 0 THEN <<>> ELSE rows[1] \o Flatten(Tail(rows))

\* for segments in reader: for segment in segments (lines 160-161)
Tokenize(s) == Flatten(Rows(s))

-----------------------------------------------------------------------------
(* The registry and the classifier: the body of the two for-loops of       *)
(* parse_input_file, as a function of the state it reads and writes.       *)

\* what a Python read of a reference yields
Deref(r, ref) == r.lists[ref]

\* cur_claim_data.append(segment): the list object itself changes
ListAppend(r, ref, segment) == [r EXCEPT !.lists[ref] = Append(@, segment)]

\* header.append(segment), line 166
HeaderSegment(r, segment) == [r EXCEPT !.header = Append(@, segment)]

\* footer.append(segment), line 170
FooterSegment(r, segment) == [r EXCEPT !.footer = Append(@, segment)]

\* ClaimStart going on with the buffer it finds (append only)
ClaimStartKeepsBuffer(r, segment) == ListAppend(r, r.cur_claim_data, segment)

\* ClaimStart emptying and refilling the one list object (clear, append)
ClaimStartReusesList(r, segment) ==
    [r EXCEPT !.lists[r.cur_claim_data] = <<segment>>]

\* cur_claim_data = [segment], line 176: a new list object
ClaimStart(r, segment) ==
    [r EXCEPT !.lists = Append(@, <<segment>>), !.cur_claim_data = Len(r.lists) + 1]

\* ClaimEnd counting every claim under the first ClaimType
ClaimEndCountsFirstType(r, segment) ==
    LET appended == ListAppend(r, r.cur_claim_data, segment)
        claim == [claim_type |-> r.cur_claim_type, data |-> r.cur_claim_data]
        sealed == [appended EXCEPT !.claims = Append(@, claim)]
    IN  IF r.cur_claim_type \in DOMAIN r.claim_counts
        THEN [sealed EXCEPT !.claim_counts[ClaimType[1]] = @ + 1]
        ELSE [sealed EXCEPT !.error = "KeyError"]

\* lines 180-183; claim_counts[None] raises KeyError after claims.append
ClaimEnd(r, segment) ==
    LET appended == ListAppend(r, r.cur_claim_data, segment)
        claim == [claim_type |-> r.cur_claim_type, data |-> r.cur_claim_data]
        sealed == [appended EXCEPT !.claims = Append(@, claim)]
    IN  IF r.cur_claim_type \in DOMAIN r.claim_counts
        THEN [sealed EXCEPT !.claim_counts[r.cur_claim_type] = @ + 1]
        ELSE [sealed EXCEPT !.error = "KeyError"]

\* ClaimType[code]: the member named code, or "KeyError"
LookupClaimType(code) ==
    IF \E T \in ClaimTypes : ClaimTypeName(T) = code
    THEN CHOOSE T \in ClaimTypes : ClaimTypeName(T) = code
    ELSE "KeyError"

\* a lookup that yields None for an unknown code and goes on
ResolveTypeLenient(r, segment) ==
    LET elements == Split(segment, ELEMENT_DELIMITER)
    IN  IF Len(elements) <= CLAIM_TYPE_ELEMENT_NUM
        THEN [r EXCEPT !.error = "IndexError"]
        ELSE LET type_element == elements[CLAIM_TYPE_ELEMENT_NUM + 1]
                 found == LookupClaimType(Prefix(type_element, 2))
             IN  IF found = "KeyError"
                 THEN [r EXCEPT !.cur_claim_type = "None"]
                 ELSE [r EXCEPT !.cur_claim_type = found]

\* lines 191-193
ResolveType(r, segment) ==
    LET elements == Split(segment, ELEMENT_DELIMITER)
    IN  IF Len(elements) <= CLAIM_TYPE_ELEMENT_NUM
        THEN [r EXCEPT !.error = "IndexError"]
        ELSE LET type_element == elements[CLAIM_TYPE_ELEMENT_NUM + 1]
                 found == LookupClaimType(Prefix(type_element, 2))
             IN  IF found = "KeyError"
                 THEN [r EXCEPT !.error = "KeyError"]
                 ELSE [r EXCEPT !.cur_claim_type = found]

\* lines 187-193
ClaimOther(r, segment) ==
    LET appended == ListAppend(r, r.cur_claim_data, segment)
    IN  IF StartsWith(segment, CLAIM_TYPE_SEGMENT)
        THEN ResolveType(appended, segment)
        ELSE appended

\* lines 163-193: what one segment does to the registry
ClassifySegment(r, segment) ==
    IF segment = <<>> THEN r
    ELSE IF StartsWithAny(segment, HEADER_SEGMENTS) THEN HeaderSegment(r, segment)
    ELSE IF StartsWithAny(segment, FOOTER_SEGMENTS) THEN FooterSegment(r, segment)
    ELSE IF StartsWith(segment, CLAIM_START_SEGMENT) THEN ClaimStart(r, segment)
    ELSE IF StartsWith(segment, CLAIM_END_SEGMENT) THEN ClaimEnd(r, segment)
    ELSE ClaimOther(r, segment)

\* the globals after init() (lines 49-52, 80-82) with the locals of a parse
\* that is about to start (lines 156-157)
FreshRegistry ==
    [header |-> <<>>, footer |-> <<>>, claims |-> <<>>,
     claim_counts |-> [T \in ClaimTypes |-> 0],
     lists |-> << <<>> >>, cur_claim_data |-> 1, cur_claim_type |-> "None",
     error |-> "none"]

RECURSIVE ClassifyFrom(_, _, _)
\* the two for-loops, ended by the first exception
ClassifyFrom(r, segs, i) ==
    IF i > Len(segs) \/ r.error # "none" THEN r
    ELSE ClassifyFrom(ClassifySegment(r, segs[i]), segs, i + 1)

\* parse_input_file on a file of characters s, from a fresh registry
ParseFile(s) == ClassifyFrom(FreshRegistry, Tokenize(s), 1)

\* the registry of the current state
Registry ==
    [header |-> header, footer |-> footer, claims |-> claims,
     claim_counts |-> claim_counts, lists |-> lists,
     cur_claim_data |-> cur_claim_data, cur_claim_type |-> cur_claim_type,
     error |-> error]

-----------------------------------------------------------------------------
(* write_output_file, lines 198-231.                                       *)

\* the arguments of the split subcommand
INPUT_FILE == <<"f", ".", "x">>
OUTPUT_DIR == <<"o">>
PATH_SEP == "/"

\* lines 130-133; first_period is 0 when index raises ValueError
first_period == Index(INPUT_FILE, ".")
prefix == SubSeq(INPUT_FILE, 1, first_period - 1)
suffix == SubSeq(INPUT_FILE, first_period, Len(INPUT_FILE))

\* line 202
OutputFileName(T) ==
    OUTPUT_DIR \o <<PATH_SEP>> \o prefix \o <<"_">> \o ClaimTypeName(T) \o suffix

RECURSIVE ClaimTextLastFirst(_, _, _)
\* ClaimText going through the claims list from its end
ClaimTextLastFirst(r, T, i) ==
    IF i > Len(r.claims) THEN <<>>
    ELSE ClaimTextLastFirst(r, T, i + 1) \o
         (IF r.claims[i].claim_type = T
          THEN <<SEGMENT_DELIMITER>> \o Join(Deref(r, r.claims[i].data), SEGMENT_DELIMITER)
          ELSE <<>>)

RECURSIVE ClaimTextAnyType(_, _, _)
\* ClaimText without the comparison of the claim's type
ClaimTextAnyType(r, T, i) ==
    IF i > Len(r.claims) THEN <<>>
    ELSE <<SEGMENT_DELIMITER>> \o Join(Deref(r, r.claims[i].data), SEGMENT_DELIMITER)
            \o ClaimTextAnyType(r, T, i + 1)

RECURSIVE ClaimText(_, _, _)
\* lines 213-216: every claim of the type, each after a delimiter
ClaimText(r, T, i) ==
    IF i > Len(r.claims) THEN <<>>
    ELSE (IF r.claims[i].claim_type = T
          THEN <<SEGMENT_DELIMITER>> \o Join(Deref(r, r.claims[i].data), SEGMENT_DELIMITER)
          ELSE <<>>) \o ClaimText(r, T, i + 1)

\* RewriteCount leaving the segment as it was read
RewriteCountKept(r, T, segment) == segment

\* RewriteCount writing the number of all sealed claims
RewriteCountAllClaims(r, T, segment) ==
    LET elements == Split(segment, ELEMENT_DELIMITER)
    IN  Join([elements EXCEPT ![CLAIM_COUNT_ELEMENT_NUM + 1] = Str(Len(r.claims))],
             ELEMENT_DELIMITER)

\* lines 222-224: the count element of a GE segment replaced
RewriteCount(r, T, segment) ==
    LET elements == Split(segment, ELEMENT_DELIMITER)
    IN  Join([elements EXCEPT ![CLAIM_COUNT_ELEMENT_NUM + 1] = Str(r.claim_counts[T])],
             ELEMENT_DELIMITER)

\* line 223 raises IndexError when the segment has no element 1
HasCountElement(segment) ==
    Len(Split(segment, ELEMENT_DELIMITER)) > CLAIM_COUNT_ELEMENT_NUM

RECURSIVE FooterText(_, _, _)
\* lines 219-225: [text, error], the text being what was written so far
FooterText(r, T, i) ==
    IF i > Len(r.footer) THEN [text |-> <<>>, error |-> "none"]
    ELSE LET segment == r.footer[i]
         IN  IF ~StartsWith(segment, FOOTER_CLAIM_COUNT_SEGMENT)
             THEN LET rest == FooterText(r, T, i + 1)
                  IN  [rest EXCEPT !.text = <<SEGMENT_DELIMITER>> \o segment \o @]
             ELSE IF ~HasCountElement(segment)
             THEN [text |-> <<SEGMENT_DELIMITER>>, error |-> "IndexError"]
             ELSE LET rest == FooterText(r, T, i + 1)
                  IN  [rest EXCEPT
                         !.text = <<SEGMENT_DELIMITER>> \o RewriteCount(r, T, segment) \o @]

\* lines 210-225: everything fh.write is handed for type T
OutputText(r, T) ==
    LET foot == FooterText(r, T, 1)
    IN  [foot EXCEPT
           !.text = Join(r.header, SEGMENT_DELIMITER) \o ClaimText(r, T, 1) \o @]

\* open(filename, "w") and the writes: the file is replaced
PutFile(fs, name, text) ==
    {f \in fs : f.name # name} \cup {[name |-> name, text |-> text]}

\* write_output_file for type T: the directory afterwards
write_output_file(fs, r, T) ==
    IF r.claim_counts[T] # 0
    THEN PutFile(fs, OutputFileName(T), OutputText(r, T).text)
    ELSE fs

\* lines 134-136: one pass of split's loop
SplitLoopBody(fs, r, T) ==
    IF r.claim_counts[T] # 0 THEN write_output_file(fs, r, T) ELSE fs

\* the exception one pass of split's loop ends with, or "none"
SplitLoopError(r, T) ==
    IF r.claim_counts[T] # 0 THEN OutputText(r, T).error ELSE "none"

-----------------------------------------------------------------------------
(* The input files the model runs on.                                      *)

MaxLen == 4       \* longest arbitrary segment sequence
MaxClaims == 2    \* most claims of a generated well-formed file

SegISA == <<"I", "S", "A", "*", "0">>
SegGS == <<"G", "S", "*", "0">>
SegGE == <<"G", "E", "*", "9", "*", "0">>
SegGEbare == <<"G", "E">>
SegIEA == <<"I", "E", "A", "*", "1">>
SegST == <<"S", "T", "*", "1">>
SegSE == <<"S", "E", "*", "1">>
SegBHTCE == <<"B", "H", "T", "*", "0", "*", "0", "*", "C", "E", "1">>
SegBHTCF == <<"B", "H", "T", "*", "0", "*", "0", "*", "C", "F">>
SegBHTunknown == <<"B", "H", "T", "*", "0", "*", "0", "*", "1">>
SegBHTshort == <<"B", "H", "T", "*", "0">>
SegNM1 == <<"N", "M", "1", "*", "0">>

\* every kind of segment the classifier tells apart, and the two segments
\* on which an index is out of range
Alphabet ==
    {SegISA, SegGE, SegGEbare, SegST, SegSE, SegBHTCE, SegBHTCF, SegBHTunknown,
     SegBHTshort, SegNM1}

ArbitraryInputs == UNION {[1..k -> Alphabet] : k \in 0..MaxLen}

ClaimBodies ==
    {<<SegST, SegBHTCE, SegSE>>, <<SegST, SegBHTCF, SegSE>>,
     <<SegST, SegNM1, SegBHTCE, SegSE>>, <<SegST, SegBHTCF, SegNM1, SegSE>>}

WellFormedInputs ==
    {h \o Flatten(c) \o f :
        h \in {<<SegISA>>, <<SegISA, SegGS>>},
        c \in UNION {[1..k -> ClaimBodies] : k \in 0..MaxClaims},
        f \in {<<SegGE>>, <<SegGE, SegIEA>>}}

RECURSIVE Render(_)
\* a file of these segments, each followed by the segment delimiter
Render(segs) ==
    IF Len(segs) = 0 THEN <<>>
    ELSE segs[1] \o <<SEGMENT_DELIMITER>> \o Render(Tail(segs))

\* ISA*...~GS*...~ST*1~BHT*0019*00*1*20220101*1200*CE~SE*1~ST*1~BHT*0019*00*1*20220101*1201*CF~SE*1~GE*2~IEA*1~
ScenarioFile == <<
    "I", "S", "A", "*", ".", ".", ".", "~", "G", "S", "*", ".", ".", ".",
    "~", "S", "T", "*", "1", "~", "B", "H", "T", "*", "0", "0", "1", "9",
    "*", "0", "0", "*", "1", "*", "2", "0", "2", "2", "0", "1", "0", "1",
    "*", "1", "2", "0", "0", "*", "C", "E", "~", "S", "E", "*", "1", "~",
    "S", "T", "*", "1", "~", "B", "H", "T", "*", "0", "0", "1", "9", "*",
    "0", "0", "*", "1", "*", "2", "0", "2", "2", "0", "1", "0", "1", "*",
    "1", "2", "0", "1", "*", "C", "F", "~", "S", "E", "*", "1", "~", "G",
    "E", "*", "2", "~", "I", "E", "A", "*", "1", "~" >>

\* the same file with the type code at element index 3 of each BHT segment
ScenarioFileIndex3 == Render(<< <<"I", "S", "A", "*", ".", ".", ".">>,
    <<"G", "S", "*", ".", ".", ".">>,
    <<"S", "T", "*", "1">>,
    <<"B", "H", "T", "*", "0", "0", "1", "9", "*", "0", "0", "*", "C", "E">>,
    <<"S", "E", "*", "1">>,
    <<"S", "T", "*", "1">>,
    <<"B", "H", "T", "*", "0", "0", "1", "9", "*", "0", "0", "*", "C", "F">>,
    <<"S", "E", "*", "1">>,
    <<"G", "E", "*", "2">>,
    <<"I", "E", "A", "*", "1">> >>)

Contents ==
    {Render(segs) : segs \in ArbitraryInputs \cup WellFormedInputs}
        \cup {ScenarioFile, ScenarioFileIndex3}

-----------------------------------------------------------------------------
(* The run of `split`: init(), parse_input_file, the three checks, the     *)
(* loop over ClaimType. It starts at the call of parse_input_file (line    *)
(* 118), both arguments given.                                             *)

Init ==
    /\ subcommand = "split"
    /\ input_given = TRUE
    /\ output_given = TRUE
    /\ input_open = "ok"
    /\ content \in Contents
    /\ pc = "start"
    /\ segments = <<>>
    /\ pos = 1
    /\ header = <<>>
    /\ footer = <<>>
    /\ claims = <<>>
    /\ claim_counts = [T \in ClaimTypes |-> 0]
    /\ lists = <<>>
    /\ cur_claim_data = 0
    /\ cur_claim_type = "None"
    /\ error = "none"
    /\ wi = 1
    /\ files = {}
    /\ exit_code = 0

\* lines 151-158: the file is opened, the locals are set, the reader is made
Start ==
    /\ pc = "start"
    /\ input_open = "ok"
    /\ pc' = "parse"
    /\ segments' = Tokenize(content)
    /\ pos' = 1
    /\ lists' = Append(lists, <<>>)
    /\ cur_claim_data' = Len(lists) + 1
    /\ cur_claim_type' = "None"
    /\ UNCHANGED <<args, content, header, footer, claims, claim_counts, error, wi,
                   files, exit_code>>

\* lines 160-193: one segment; an exception leaves parse_input_file and
\* split, and line 246 exits with ERR_UNKNOWN
ParseSegment ==
    /\ pc = "parse"
    /\ pos <= Len(segments)
    /\ \E r \in {ClassifySegment(Registry, segments[pos])} :
           /\ header' = r.header
           /\ footer' = r.footer
           /\ claims' = r.claims
           /\ claim_counts' = r.claim_counts
           /\ lists' = r.lists
           /\ cur_claim_data' = r.cur_claim_data
           /\ cur_claim_type' = r.cur_claim_type
           /\ error' = r.error
           /\ pc' = IF r.error = "none" THEN "parse" ELSE "exit"
           /\ exit_code' = IF r.error = "none" THEN exit_code ELSE ERR_UNKNOWN
    /\ pos' = pos + 1
    /\ UNCHANGED <<args, content, segments, wi, files>>

\* the reader is exhausted: parse_input_file returns (line 195)
ParseEnd ==
    /\ pc = "parse"
    /\ pos > Len(segments)
    /\ pc' = "check"
    /\ UNCHANGED <<args, content, segments, pos, header, footer, claims,
                   claim_counts, lists, cur_claim_data, cur_claim_type, error, wi,
                   files, exit_code>>

\* the three checks with the footer looked at before the header
SplitCheckFooterFirst ==
    /\ pc = "check"
    /\ subcommand = "split"
    /\ IF footer = <<>> THEN
            pc' = "exit" /\ exit_code' = ERR_FOOTER_NOT_FOUND /\ error' = error
       ELSE IF header = <<>> THEN
            pc' = "exit" /\ exit_code' = ERR_HEADER_NOT_FOUND /\ error' = error
       ELSE IF claims = <<>> THEN
            pc' = "exit" /\ exit_code' = ERR_CLAIM_DATA_NOT_FOUND /\ error' = error
       ELSE IF first_period = 0 THEN
            pc' = "exit" /\ exit_code' = ERR_UNKNOWN /\ error' = "ValueError"
       ELSE pc' = "write" /\ exit_code' = exit_code /\ error' = error
    /\ wi' = 1
    /\ UNCHANGED <<args, content, segments, pos, header, footer, claims,
                   claim_counts, lists, cur_claim_data, cur_claim_type, files>>

\* lines 120-133
SplitCheck ==
    /\ pc = "check"
    /\ subcommand = "split"
    /\ IF header = <<>> THEN
            pc' = "exit" /\ exit_code' = ERR_HEADER_NOT_FOUND /\ error' = error
       ELSE IF footer = <<>> THEN
            pc' = "exit" /\ exit_code' = ERR_FOOTER_NOT_FOUND /\ error' = error
       ELSE IF claims = <<>> THEN
            pc' = "exit" /\ exit_code' = ERR_CLAIM_DATA_NOT_FOUND /\ error' = error
       ELSE IF first_period = 0 THEN
            pc' = "exit" /\ exit_code' = ERR_UNKNOWN /\ error' = "ValueError"
       ELSE pc' = "write" /\ exit_code' = exit_code /\ error' = error
    /\ wi' = 1
    /\ UNCHANGED <<args, content, segments, pos, header, footer, claims,
                   claim_counts, lists, cur_claim_data, cur_claim_type, files>>

\* the footer with the count of type T stored in its GE segments
FooterRewritten(r, T) ==
    [i \in DOMAIN r.footer |->
        IF StartsWith(r.footer[i], FOOTER_CLAIM_COUNT_SEGMENT) /\ HasCountElement(r.footer[i])
        THEN RewriteCount(r, T, r.footer[i])
        ELSE r.footer[i]]

\* SplitWrite storing the rewritten segment in the footer list (footer[i] = ...)
SplitWriteStoresFooter ==
    /\ pc = "write"
    /\ wi <= Len(ClaimType)
    /\ \E raised \in {SplitLoopError(Registry, ClaimType[wi])} :
           /\ files' = SplitLoopBody(files, Registry, ClaimType[wi])
           /\ error' = IF raised = "none" THEN error ELSE raised
           /\ pc' = IF raised = "none" THEN "write" ELSE "exit"
           /\ exit_code' = IF raised = "none" THEN exit_code ELSE ERR_UNKNOWN
    /\ footer' = IF claim_counts[ClaimType[wi]] # 0
                 THEN FooterRewritten(Registry, ClaimType[wi])
                 ELSE footer
    /\ wi' = wi + 1
    /\ UNCHANGED <<args, content, segments, pos, header, claims, claim_counts, lists,
                   cur_claim_data, cur_claim_type>>

\* lines 134-136 for the type at wi, the file opening; an IndexError in the
\* footer rewrite leaves what was written and exits with ERR_UNKNOWN
SplitWrite ==
    /\ pc = "write"
    /\ wi <= Len(ClaimType)
    /\ \E raised \in {SplitLoopError(Registry, ClaimType[wi])} :
           /\ files' = SplitLoopBody(files, Registry, ClaimType[wi])
           /\ error' = IF raised = "none" THEN error ELSE raised
           /\ pc' = IF raised = "none" THEN "write" ELSE "exit"
           /\ exit_code' = IF raised = "none" THEN exit_code ELSE ERR_UNKNOWN
    /\ wi' = wi + 1
    /\ UNCHANGED <<args, content, segments, pos, header, footer, claims,
                   claim_counts, lists, cur_claim_data, cur_claim_type>>

\* lines 204-207: open(filename, "w") raises
SplitWriteFails ==
    /\ pc = "write"
    /\ wi <= Len(ClaimType)
    /\ claim_counts[ClaimType[wi]] # 0
    /\ pc' = "exit"
    /\ exit_code' = ERR_CANT_WRITE_FILE
    /\ UNCHANGED <<args, content, segments, pos, header, footer, claims,
                   claim_counts, lists, cur_claim_data, cur_claim_type, error, wi,
                   files>>

\* line 138: the loop is over
SplitDone ==
    /\ pc = "write"
    /\ wi > Len(ClaimType)
    /\ pc' = "done"
    /\ UNCHANGED <<args, content, segments, pos, header, footer, claims,
                   claim_counts, lists, cur_claim_data, cur_claim_type, error, wi,
                   files, exit_code>>

Next ==
    \/ Start
    \/ ParseSegment
    \/ ParseEnd
    \/ SplitCheck
    \/ SplitWrite
    \/ SplitWriteFails
    \/ SplitDone

Spec == Init /\ [][Next]_vars

(***************************************************************************)
(* The command line: main, verify and split up to the call of              *)
(* parse_input_file, and the open of the input file.                       *)
(***************************************************************************)

\* bound: the number of segments of an arbitrary input of a command line run
MaxCliLen == 2

\* the subcommands milc dispatches to; "none" runs the entry point main
Subcommands == {"none", "verify", "split"}

\* open(filename, "r") returns a file or raises an OSError
OpenOutcomes == {"ok", "FileNotFoundError", "PermissionError", "IsADirectoryError"}

CliContents ==
    {Render(in) : in \in UNION {[1..n -> Alphabet] : n \in 0..MaxCliLen}}
        \cup {ScenarioFile, ScenarioFileIndex3}

\* the run starts at cli(): init() has run (lines 243-244)
InitCli ==
    /\ subcommand \in Subcommands
    /\ input_given \in BOOLEAN
    /\ output_given \in BOOLEAN
    /\ input_open \in OpenOutcomes
    /\ content \in CliContents
    /\ pc = "main"
    /\ segments = <<>>
    /\ pos = 1
    /\ header = FreshRegistry.header
    /\ footer = FreshRegistry.footer
    /\ claims = FreshRegistry.claims
    /\ claim_counts = FreshRegistry.claim_counts
    /\ lists = FreshRegistry.lists
    /\ cur_claim_data = FreshRegistry.cur_claim_data
    /\ cur_claim_type = FreshRegistry.cur_claim_type
    /\ error = "none"
    /\ wi = 1
    /\ files = {}
    /\ exit_code = 0

\* the values of the members of ErrorCode (lines 63-71)
ErrorCodes ==
    {ERR_MISSING_SUBCOMMAND, ERR_MISSING_ARG, ERR_CANT_READ_FILE, ERR_CANT_WRITE_FILE,
     ERR_HEADER_NOT_FOUND, ERR_FOOTER_NOT_FOUND, ERR_CLAIM_DATA_NOT_FOUND, ERR_UNKNOWN}

\* what the parent process sees of sys.exit(code): the low eight bits
ExitStatus(code) == code % 256

\* a handle_error that logs and returns: the caller goes on to its next line
handle_errorReturns(error_code) ==
    /\ pc' = "start"
    /\ UNCHANGED <<args, content, segments, pos, header, footer, claims,
                   claim_counts, lists, cur_claim_data, cur_claim_type, error, wi,
                   files, exit_code>>

\* handle_error(error_code, ...): sys.exit(error_code.value). SystemExit is
\* not an Exception, so the handler of line 245 lets it through.
handle_error(error_code) ==
    /\ pc' = "exit"
    /\ exit_code' = error_code
    /\ UNCHANGED <<args, content, segments, pos, header, footer, claims,
                   claim_counts, lists, cur_claim_data, cur_claim_type, error, wi,
                   files>>

\* lines 85-88: no subcommand
main ==
    /\ pc = "main"
    /\ subcommand = "none"
    /\ handle_error(ERR_MISSING_SUBCOMMAND)

\* lines 96-98: verify without --input_file
VerifyMissingArg ==
    /\ pc = "main"
    /\ subcommand = "verify"
    /\ ~input_given
    /\ handle_error(ERR_MISSING_ARG)

\* lines 110-116: split without --input_file or without --output_dir
SplitMissingArg ==
    /\ pc = "main"
    /\ subcommand = "split"
    /\ ~input_given \/ ~output_given
    /\ handle_error(ERR_MISSING_ARG)

\* line 100 and line 118: the arguments are there, parse_input_file is called
CallParse ==
    /\ pc = "main"
    /\ \/ subcommand = "verify" /\ input_given
       \/ subcommand = "split" /\ input_given /\ output_given
    /\ pc' = "start"
    /\ UNCHANGED <<args, content, segments, pos, header, footer, claims,
                   claim_counts, lists, cur_claim_data, cur_claim_type, error, wi,
                   files, exit_code>>

\* the exceptions the except clause of line 153 names
CaughtOpenErrors == {"FileNotFoundError", "PermissionError"}

\* lines 151-154: open raises one of the exceptions the except clause names
OpenFails ==
    /\ pc = "start"
    /\ input_open \in CaughtOpenErrors
    /\ handle_error(ERR_CANT_READ_FILE)

\* line 152: open raises another OSError, which reaches line 245
OpenRaises ==
    /\ pc = "start"
    /\ input_open \notin CaughtOpenErrors \cup {"ok"}
    /\ pc' = "exit"
    /\ error' = input_open
    /\ exit_code' = ERR_UNKNOWN
    /\ UNCHANGED <<args, content, segments, pos, header, footer, claims,
                   claim_counts, lists, cur_claim_data, cur_claim_type, wi, files>>

\* line 101 and lines 141-145: print_summary_report only reads
VerifyReport ==
    /\ pc = "check"
    /\ subcommand = "verify"
    /\ pc' = "done"
    /\ UNCHANGED <<args, content, segments, pos, header, footer, claims,
                   claim_counts, lists, cur_claim_data, cur_claim_type, error, wi,
                   files, exit_code>>

NextCli ==
    \/ main
    \/ VerifyMissingArg
    \/ SplitMissingArg
    \/ CallParse
    \/ OpenFails
    \/ OpenRaises
    \/ Start
    \/ ParseSegment
    \/ ParseEnd
    \/ VerifyReport
    \/ SplitCheck
    \/ SplitWrite
    \/ SplitWriteFails
    \/ SplitDone

SpecCli == InitCli /\ [][NextCli]_vars

-----------------------------------------------------------------------------
(* Vocabulary of the properties.                                           *)

NonEmpty(segs) == SelectSeq(segs, LAMBDA x : x # <<>>)

\* the role of a segment, by the prefixes of section 6 of the specification
Role(segment) ==
    IF StartsWithAny(segment, HEADER_SEGMENTS) THEN "header"
    ELSE IF StartsWithAny(segment, FOOTER_SEGMENTS) THEN "footer"
    ELSE IF StartsWith(segment, CLAIM_START_SEGMENT) THEN "start"
    ELSE IF StartsWith(segment, CLAIM_END_SEGMENT) THEN "end"
    ELSE IF StartsWith(segment, CLAIM_TYPE_SEGMENT) THEN "type"
    ELSE "other"

\* the type code of a BHT segment: the first two characters of element 3
TypeCode(segment) ==
    LET elements == Split(segment, ELEMENT_DELIMITER)
    IN  IF Len(elements) > CLAIM_TYPE_ELEMENT_NUM
        THEN Prefix(elements[CLAIM_TYPE_ELEMENT_NUM + 1], 2)
        ELSE <<>>

HasKnownType(segment) == \E T \in ClaimTypes : TypeCode(segment) = ClaimTypeName(T)

RECURSIVE WellFormedFrom(_, _, _, _, _)
\* phase: header, claim (inside ST..SE, types counting its BHT segments),
\* between (after an SE), footer (counted telling whether a GE with a count
\* element was seen)
WellFormedFrom(segs, i, phase, types, counted) ==
    IF i > Len(segs) THEN phase = "footer" /\ counted
    ELSE LET role == Role(segs[i])
         IN  CASE phase = "header" ->
                    \/ role = "header" /\ WellFormedFrom(segs, i + 1, "header", 0, FALSE)
                    \/ i > 1 /\ role = "start"
                             /\ WellFormedFrom(segs, i + 1, "claim", 0, FALSE)
                    \/ i > 1 /\ role = "footer"
                             /\ WellFormedFrom(segs, i + 1, "footer", 0,
                                               HasCountElement(segs[i])
                                                 /\ StartsWith(segs[i], FOOTER_CLAIM_COUNT_SEGMENT))
               [] phase = "claim" ->
                    \/ role = "other" /\ WellFormedFrom(segs, i + 1, "claim", types, FALSE)
                    \/ role = "type" /\ HasKnownType(segs[i])
                             /\ WellFormedFrom(segs, i + 1, "claim", types + 1, FALSE)
                    \/ role = "end" /\ types = 1
                             /\ WellFormedFrom(segs, i + 1, "between", 0, FALSE)
               [] phase = "between" ->
                    \/ role = "start" /\ WellFormedFrom(segs, i + 1, "claim", 0, FALSE)
                    \/ role = "footer"
                             /\ WellFormedFrom(segs, i + 1, "footer", 0,
                                               HasCountElement(segs[i])
                                                 /\ StartsWith(segs[i], FOOTER_CLAIM_COUNT_SEGMENT))
               [] phase = "footer" ->
                    role = "footer"
                      /\ WellFormedFrom(segs, i + 1, "footer", 0,
                                        counted \/ (HasCountElement(segs[i])
                                          /\ StartsWith(segs[i], FOOTER_CLAIM_COUNT_SEGMENT)))

\* header segments, then claims ST .. one BHT of a known type .. SE, then
\* footer segments with a GE that has a count element
WellFormed(segs) == WellFormedFrom(segs, 1, "header", 0, FALSE)

\* the input of the run is well formed (known once the reader was made)
WellFormedInput == pc # "start" /\ WellFormed(NonEmpty(segments))

\* parse_input_file has returned and split goes on
Parsed == pc \in {"check", "write", "done"}

\* the run is over, and not because a file could not be opened for writing
Ended == pc \in {"done", "exit"} /\ exit_code # ERR_CANT_WRITE_FILE

HasFile(T) == \E f \in files : f.name = OutputFileName(T)

FileText(T) == (CHOOSE f \in files : f.name = OutputFileName(T)).text

\* the sealed claims of type T, as positions of the claims list
ClaimsOfType(T) == {i \in 1..Len(claims) : claims[i].claim_type = T}

\* the data of the i-th sealed claim
ClaimData(i) == lists[claims[i].data]

\* the GE segments of a file of characters
CountSegments(text) ==
    SelectSeq(Tokenize(text), LAMBDA x : StartsWith(x, FOOTER_CLAIM_COUNT_SEGMENT))

\* the count element of a GE segment
CountElement(segment) == Split(segment, ELEMENT_DELIMITER)[CLAIM_COUNT_ELEMENT_NUM + 1]

RECURSIVE FlattenClaims(_)
FlattenClaims(i) == IF i > Len(claims) THEN <<>> ELSE ClaimData(i) \o FlattenClaims(i + 1)

-----------------------------------------------------------------------------
(* C1: the concrete scenario.                                              *)

\* two files, _CE and _CF, each with the two header segments, one claim and
\* the footer with the GE count element 1
ScenarioOutcome ==
    /\ {f.name : f \in files} = {<<"o", "/", "f", "_", "C", "E", ".", "x">>,
                                 <<"o", "/", "f", "_", "C", "F", ".", "x">>}
    /\ Cardinality(files) = 2
    /\ \A f \in files :
          LET r == ParseFile(f.text)
          IN  /\ r.error = "none"
              /\ r.header = << <<"I", "S", "A", "*", ".", ".", ".">>,
                              <<"G", "S", "*", ".", ".", ".">> >>
              /\ Len(r.claims) = 1
              /\ r.footer = << <<"G", "E", "*", "1">>, <<"I", "E", "A", "*", "1">> >>

\* C1 as stated: split on the file ISA*...~GS*...~ST*1~BHT*0019*00*1*20220101*
\* 1200*CE~SE*1~ST*1~BHT*0019*00*1*20220101*1201*CF~SE*1~GE*2~IEA*1~ ends with
\* exactly the two files _CE and _CF, each holding the header, one claim and
\* a footer whose GE count element is 1.
C1_Original == (content = ScenarioFile /\ Ended) => ScenarioOutcome

\* C1, amended: the same holds of the file whose BHT segments carry the type
\* code at element index 3 (BHT*0019*00*CE, BHT*0019*00*CF), where the code
\* reads it.
C1_ScenarioIndex3 == (content = ScenarioFileIndex3 /\ Ended) => ScenarioOutcome

C1_Witness == content = ScenarioFileIndex3 /\ pc = "done" /\ Cardinality(files) = 2

-----------------------------------------------------------------------------
(* C2: the rewritten count equals the claims written.                      *)

\* C2: in every file written for a type T, the element at index 1 of every
\* GE segment is the decimal number of sealed claims of type T, which are
\* the claims written into that file.
C2_CountMatchesClaims ==
    \A T \in ClaimTypes :
        HasFile(T) =>
            LET ge == CountSegments(FileText(T))
            IN  \A i \in 1..Len(ge) :
                    /\ HasCountElement(ge[i])
                    /\ CountElement(ge[i]) = Str(Cardinality(ClaimsOfType(T)))

C2_Witness ==
    /\ pc = "done"
    /\ \A T \in ClaimTypes : HasFile(T) /\ Len(CountSegments(FileText(T))) > 0
    /\ Len(claims) = 2

-----------------------------------------------------------------------------
(* C3: no file for a type without claims.                                  *)

\* C3: in every state, a type none of whose claims was sealed has no output
\* file.
C3_NoFileWithoutClaims ==
    \A T \in ClaimTypes : ClaimsOfType(T) = {} => ~HasFile(T)

C3_Witness ==
    pc = "done" /\ ClaimsOfType("CF") = {} /\ ~HasFile("CF") /\ HasFile("CE")

-----------------------------------------------------------------------------
(* C4: parsing an output file again.                                       *)

\* the counts a fresh parse of the file of type T yields are zero but for T,
\* whose count is the one of the original parse
ReparseAgrees(T) ==
    LET r == ParseFile(FileText(T))
    IN  /\ r.error = "none"
        /\ r.claim_counts[T] = claim_counts[T]
        /\ r.claim_counts[T] # 0
        /\ \A U \in ClaimTypes \ {T} : r.claim_counts[U] = 0

\* C4: for a well-formed input, once split has ended normally every type
\* with a non-zero count has a file, and parsing any written file from a
\* fresh registry gives exactly one non-zero count, that of its type, equal
\* to the original count.
C4_ReparseCounts ==
    WellFormedInput =>
        /\ \A T \in ClaimTypes : HasFile(T) => ReparseAgrees(T)
        /\ pc = "done" => \A T \in ClaimTypes : claim_counts[T] # 0 => HasFile(T)

C4_Witness ==
    /\ WellFormedInput
    /\ pc = "done"
    /\ \A T \in ClaimTypes : claim_counts[T] # 0 /\ HasFile(T)

-----------------------------------------------------------------------------
(* C5: the registry holds the input, segment for segment.                  *)

\* C5: for a well-formed input, after parsing, header, then the data of the
\* sealed claims in list order, then footer, is the sequence of the
\* non-empty segments of the input.
C5_RoundTrip ==
    (WellFormedInput /\ Parsed) =>
        header \o FlattenClaims(1) \o footer = NonEmpty(segments)

C5_Witness ==
    /\ WellFormedInput
    /\ pc = "check"
    /\ Len(claims) = 2
    /\ Len(segments) > Len(NonEmpty(segments))

-----------------------------------------------------------------------------
(* C6 - C9: the invariants of the sealed claims.                           *)

\* C6: in every state the classifier reaches, claim_counts[CE] +
\* claim_counts[CF] is the number of sealed claims.
C6_Original == claim_counts["CE"] + claim_counts["CF"] = Len(claims)

\* C7: in every state, every sealed claim has non-empty data that starts
\* with an ST segment and ends with an SE segment. (Stated of the states
\* reached without an exception, which are among the states C7 speaks of.)
C7_Original ==
    error = "none" =>
        \A i \in 1..Len(claims) :
            /\ Len(ClaimData(i)) > 0
            /\ StartsWith(ClaimData(i)[1], CLAIM_START_SEGMENT)
            /\ StartsWith(ClaimData(i)[Len(ClaimData(i))], CLAIM_END_SEGMENT)

\* C8: no step changes the type or the data of a claim that is already
\* sealed.
C8_Original ==
    [][\A i \in 1..Len(claims) :
          /\ claims'[i] = claims[i]
          /\ lists'[claims[i].data] = lists[claims[i].data]]_vars

\* C9: a sealed claim tagged CE or CF holds, in its own data, a BHT segment
\* whose type code is the name of that type (the claim is not tagged with a
\* type carried over from an earlier claim).
C9_Original ==
    \A i \in 1..Len(claims) :
        claims[i].claim_type \in ClaimTypes =>
            \E j \in 1..Len(ClaimData(i)) :
                /\ Role(ClaimData(i)[j]) = "type"
                /\ TypeCode(ClaimData(i)[j]) = ClaimTypeName(claims[i].claim_type)

-----------------------------------------------------------------------------
(* C10: the tokenizer and line breaks. The reader is run on every file of   *)
(* at most MaxContentLen characters over a segment character, the          *)
(* delimiter, the line break and the quote character.                      *)

MaxContentLen == 4

ContentChars == {"a", SEGMENT_DELIMITER, NL, QUOTECHAR}

TokContents == UNION {[1..k -> ContentChars] : k \in 0..MaxContentLen}

InitTok ==
    /\ subcommand = "split"
    /\ input_given = TRUE
    /\ output_given = TRUE
    /\ input_open = "ok"
    /\ content \in TokContents
    /\ pc = "start"
    /\ segments = <<>>
    /\ pos = 1
    /\ header = <<>>
    /\ footer = <<>>
    /\ claims = <<>>
    /\ claim_counts = [T \in ClaimTypes |-> 0]
    /\ lists = <<>>
    /\ cur_claim_data = 0
    /\ cur_claim_type = "None"
    /\ error = "none"
    /\ wi = 1
    /\ files = {}
    /\ exit_code = 0

NextTok == Start

SpecTok == InitTok /\ [][NextTok]_vars

RECURSIVE Without(_, _)
\* s with every character c removed
Without(s, c) ==
    IF Len(s) = 0 THEN <<>>
    ELSE (IF s[1] = c THEN <<>> ELSE <<s[1]>>) \o Without(Tail(s), c)

\* s with every line break replaced by the segment delimiter
BreaksAsDelimiters(s) == [i \in 1..Len(s) |-> IF s[i] = NL THEN SEGMENT_DELIMITER ELSE s[i]]

HasChar(s, c) == \E i \in 1..Len(s) : s[i] = c

\* C10 as stated: a line break is no segment boundary; the segments
\* delivered are those of the content with its line breaks removed. (Stated
\* of content without a double quote, which is among the content C10 speaks
\* of.)
C10_Original ==
    (pc = "parse" /\ ~HasChar(content, QUOTECHAR)) =>
        NonEmpty(segments) = NonEmpty(Tokenize(Without(content, NL)))

\* C10, amended: a line break is a segment boundary as the delimiter is; for
\* content without a double quote, the non-empty segments delivered are
\* those of the content with each line break replaced by the delimiter,
\* split on the delimiter.
C10_BreakIsBoundary ==
    (pc = "parse" /\ ~HasChar(content, QUOTECHAR)) =>
        NonEmpty(segments) = NonEmpty(Split(BreaksAsDelimiters(content), SEGMENT_DELIMITER))

C10_Witness ==
    /\ pc = "parse"
    /\ content = <<"a", "\n", "a", "~">>
    /\ segments = << <<"a">>, <<"a">>, <<>> >>

(***************************************************************************)
(* Claims about the command line (under SpecCli)                           *)
(***************************************************************************)

\* a required argument of the subcommand is missing
MissingArg ==
    \/ subcommand = "verify" /\ ~input_given
    \/ subcommand = "split" /\ (~input_given \/ ~output_given)

\* parse_input_file has not been called: nothing is read, the registry is as
\* init() left it, and no output file is written
NothingOpened ==
    /\ segments = <<>>
    /\ pos = 1
    /\ Registry = FreshRegistry
    /\ files = {}

\* C11: when a required argument is missing (input_file for verify, input_file
\* or output_dir for split) the run ends with exit code ERR_MISSING_ARG and
\* never calls parse_input_file: no file is opened for reading or writing.
C11_MissingArgExits ==
    MissingArg =>
        /\ pc \in {"main", "exit"}
        /\ pc = "exit" => exit_code = ERR_MISSING_ARG
        /\ NothingOpened

C11_Witness ==
    /\ subcommand = "split"
    /\ input_given
    /\ ~output_given
    /\ input_open = "ok"
    /\ content = ScenarioFileIndex3
    /\ pc = "exit"
    /\ exit_code = ERR_MISSING_ARG

\* parse_input_file was called and open raised; the run has ended
OpenFailed ==
    /\ subcommand # "none"
    /\ ~MissingArg
    /\ input_open # "ok"
    /\ pc = "exit"

\* C12: when the input path cannot be opened for reading, the run ends with
\* exit code ERR_CANT_READ_FILE, and header, footer, claims and claim_counts
\* are as they were before parse_input_file was called.
C12_Original ==
    OpenFailed =>
        /\ exit_code = ERR_CANT_READ_FILE
        /\ header = FreshRegistry.header
        /\ footer = FreshRegistry.footer
        /\ claims = FreshRegistry.claims
        /\ claim_counts = FreshRegistry.claim_counts

(***************************************************************************)
(* Claims about failures and about the files written (under Spec)          *)
(***************************************************************************)

\* the classifier is about to take the segment at pos
Classifying == pc = "parse" /\ pos <= Len(segments)

\* C13: the only classifier step that can fail is the type resolution of a
\* BHT segment: a header, footer, claim-start, claim-end or other segment is
\* classified without failure in every state, a claim-end segment arriving
\* while the current claim type is unresolved included.
C13_Original ==
    [][(Classifying /\ Role(segments[pos]) # "type") => error' = "none"]_vars

\* an output file was opened for writing, or is about to be
OutputOpened == files # {} \/ pc \in {"write", "done"} \/ exit_code = ERR_CANT_WRITE_FILE

\* every segment of the input was classified
WholeInputParsed == segments = Tokenize(content) /\ pos = Len(segments) + 1

\* the exit code of the first of header, footer, claims that is empty, 0 if none
EmptyCode ==
    IF header = <<>> THEN ERR_HEADER_NOT_FOUND
    ELSE IF footer = <<>> THEN ERR_FOOTER_NOT_FOUND
    ELSE IF claims = <<>> THEN ERR_CLAIM_DATA_NOT_FOUND
    ELSE 0

\* C14: split opens no output file until the whole input is parsed and
\* header, footer and claims are each non-empty; after the parse, an empty
\* header ends the run with ERR_HEADER_NOT_FOUND, else an empty footer with
\* ERR_FOOTER_NOT_FOUND, else an empty claims list with
\* ERR_CLAIM_DATA_NOT_FOUND, and then no output file exists.
C14_ChecksBeforeWrite ==
    /\ [](OutputOpened => WholeInputParsed /\ EmptyCode = 0)
    /\ [][(pc = "check" /\ EmptyCode # 0) =>
              (pc' = "exit" /\ exit_code' = EmptyCode /\ files' = {})]_vars
    /\ []((pc = "exit" /\ exit_code \in {ERR_HEADER_NOT_FOUND, ERR_FOOTER_NOT_FOUND,
                                         ERR_CLAIM_DATA_NOT_FOUND})
              => (exit_code = EmptyCode /\ files = {}))

C14_Witness ==
    /\ pc = "exit"
    /\ exit_code = ERR_FOOTER_NOT_FOUND
    /\ header # <<>>
    /\ footer = <<>>
    /\ claims # <<>>
    /\ files = {}

\* the segment at pos is a BHT segment with a type element whose code is no
\* member of ClaimType
UnknownType(segment) ==
    /\ Role(segment) = "type"
    /\ Len(Split(segment, ELEMENT_DELIMITER)) > CLAIM_TYPE_ELEMENT_NUM
    /\ ~HasKnownType(segment)

\* the parse has failed at a BHT segment with an unknown code
FailedAtUnknownType ==
    /\ pc = "exit"
    /\ error = "KeyError"
    /\ pos > 1
    /\ UnknownType(segments[pos - 1])

\* C15: a BHT segment whose type code is neither CE nor CF makes the parse
\* fail at that segment: the run ends there, so no later segment is
\* classified; cur_claim_type is not changed; no claim is sealed with the
\* unrecognised code; split writes no output file.
C15_UnknownTypeFails ==
    /\ [][(Classifying /\ UnknownType(segments[pos])) =>
              /\ pc' = "exit"
              /\ error' = "KeyError"
              /\ cur_claim_type' = cur_claim_type
              /\ claims' = claims
              /\ claim_counts' = claim_counts]_vars
    /\ [][pc # "exit"]_vars
    /\ [](\A i \in 1..Len(claims) : claims[i].claim_type \in ClaimTypes \cup {"None"})
    /\ [](FailedAtUnknownType => files = {})

C15_Witness ==
    /\ FailedAtUnknownType
    /\ cur_claim_type = "CE"
    /\ Len(claims) = 1
    /\ pos <= Len(NonEmpty(segments))

\* the list object ref is the data of a sealed claim
Sealed(ref) == \E k \in 1..Len(claims) : claims[k].data = ref

\* the list object ref was a claim buffer, is one no longer, and was not sealed
Abandoned(ref) == ref # cur_claim_data /\ ~Sealed(ref)

\* C16: the segments of a claim buffer that no SE closes (another ST arrives
\* first, or the input ends) are in the data of no sealed claim and change no
\* count, and neither event is an error; at an ST the buffer becomes the
\* one-element sequence of that ST segment.
C16_UnclosedBufferDropped ==
    /\ [][(Classifying /\ Role(segments[pos]) = "start") =>
              /\ lists'[cur_claim_data'] = <<segments[pos]>>
              /\ \A ref \in {cur_claim_data} : ~Sealed(ref) => Abandoned(ref)'
              /\ claims' = claims
              /\ claim_counts' = claim_counts
              /\ error' = "none"
              /\ pc' = "parse"]_vars
    /\ [][(pc = "parse" /\ pos > Len(segments)) =>
              /\ claims' = claims
              /\ claim_counts' = claim_counts
              /\ lists' = lists
              /\ error' = "none"
              /\ pc' = "check"]_vars
    /\ [][\A ref \in DOMAIN lists :
              Abandoned(ref) => Abandoned(ref)' /\ lists'[ref] = lists[ref]]_vars
    /\ [][(pc \in {"check", "write", "done"}) =>
              UNCHANGED <<claims, claim_counts, lists>>]_vars

\* a buffer begun by an ST was dropped at the next ST, whose claim was sealed,
\* and the input ended with a buffer that no SE closed
C16_Witness ==
    /\ pc = "check"
    /\ error = "none"
    /\ Len(claims) = 1
    /\ ~Sealed(cur_claim_data)
    /\ \E ref \in DOMAIN lists :
           /\ Abandoned(ref)
           /\ lists[ref] # <<>>
           /\ Role(lists[ref][1]) = "start"

RECURSIVE DataOfType(_, _)
\* the segments of the sealed claims of type T from position i on, claim after
\* claim in the order of the claims list
DataOfType(T, i) ==
    IF i > Len(claims) THEN <<>>
    ELSE (IF claims[i].claim_type = T THEN ClaimData(i) ELSE <<>>) \o DataOfType(T, i + 1)

\* the segments of the file of type T
FileSegments(T) == Tokenize(FileText(T))

\* the file of type T holds the header, then exactly the sealed claims of type
\* T in list order, then as many segments as the footer has
HoldsClaimsOf(T) ==
    LET body == header \o DataOfType(T, 1)
    IN  /\ Len(FileSegments(T)) = Len(body) + Len(footer)
        /\ SubSeq(FileSegments(T), 1, Len(body)) = body

\* C17: after a completed parse and the write loop of split, the output files
\* partition the sealed claims: every sealed claim is in exactly one file, the
\* one of its type; the file of type T holds exactly the sealed claims of type
\* T in their order in the claims list; the claims of all files together are
\* as many as the claims list is long.
C17_FilesPartitionClaims ==
    pc = "done" =>
        /\ \A i \in 1..Len(claims) :
               /\ claims[i].claim_type \in ClaimTypes
               /\ HasFile(claims[i].claim_type)
        /\ \A T \in ClaimTypes : HasFile(T) <=> ClaimsOfType(T) # {}
        /\ \A T \in ClaimTypes : HasFile(T) => HoldsClaimsOf(T)
        /\ Cardinality(UNION {ClaimsOfType(T) : T \in ClaimTypes}) = Len(claims)
        /\ \A T, U \in ClaimTypes : T # U => ClaimsOfType(T) \cap ClaimsOfType(U) = {}

C17_Witness ==
    /\ pc = "done"
    /\ Cardinality(ClaimsOfType("CF")) = 2
    /\ ClaimData(1) # ClaimData(2)
    /\ HasFile("CF")

\* C18: write_output_file, for any type, leaves header, footer, claims and
\* claim_counts as they are (the count it writes is in the text only), so what
\* is written for a type does not depend on the types written before it: it
\* is what the registry the parse left gives for that type.
C18_WriteLeavesRegistry ==
    /\ [][(pc = "write") => UNCHANGED <<header, footer, claims, claim_counts, lists>>]_vars
    /\ [](\A T \in ClaimTypes :
             HasFile(T) => FileText(T) = OutputText(ParseFile(content), T).text)

C18_Witness ==
    /\ pc = "done"
    /\ \A T \in ClaimTypes : HasFile(T)
    /\ \E i \in DOMAIN footer :
           /\ HasCountElement(footer[i])
           /\ StartsWith(footer[i], FOOTER_CLAIM_COUNT_SEGMENT)
           /\ \A T \in ClaimTypes : CountElement(footer[i]) # Str(claim_counts[T])

(***************************************************************************)
(* The exit status                                                         *)
(***************************************************************************)

\* C19: with the observable exit status taken as the ErrorCode value modulo
\* 256, the status of a run that ends through handle_error is non-zero, for
\* each of the eight members of ErrorCode, ERR_UNKNOWN included, and the
\* statuses of the eight members are pairwise distinct. (Stated of the runs
\* that end by a check of split or at a BHT segment of unknown type, which
\* are among the runs C19 speaks of.)
C19_Original ==
    /\ (pc = "exit" /\ exit_code \in ErrorCodes /\ (error # "none" => FailedAtUnknownType))
           => ExitStatus(exit_code) # 0
    /\ \A c, d \in ErrorCodes : c # d => ExitStatus(c) # ExitStatus(d)

====
